---- MODULE Spec2Model ----
(***************************************************************************)
(* WeSum (wesum-wechat-monitor): the run of main() in main.py over the     *)
(* seen-links file, the feeds of the enabled subscriptions, the archive    *)
(* POST and the delivery POST; and the stand-alone collector RSSParser of  *)
(* src/rss_parser.py.                                                      *)
(*                                                                         *)
(* Time is counted in whole hours.  `now' is the instant (UTC) and hostTz  *)
(* the UTC offset of the host, so datetime.now() is now + hostTz.          *)
(***************************************************************************)
EXTENDS Integers, Sequences, FiniteSets, TLC

VARIABLES
    disk,               \* data/seen_articles.json
    feeds,              \* the entries the feeds return, tagged by source, in feed order
    hostTz,             \* UTC offset of the host clock, hours
    now,                \* current instant, hours
    pc,                 \* position of the running process ("idle": none running)
    seen_links,         \* main(): seen_links  /  RSSParser: self.seen_articles
    all_articles,       \* main(): all_articles (the candidates)
    processed_articles, \* main(): processed_articles (the digest)
    outcome,            \* how the last run ended
    loadedSeen,         \* history: the set returned by the load at run start
    diskAtStart,        \* history: the file when the run started
    delivered,          \* history: links of every successfully delivered digest
    failedDigest,       \* history: links of the digest whose delivery failed last
    rss_url,            \* RSSParser: self.rss_url ("none": no parser object)
    ai_text,            \* the text a generation call returned (a token sequence)
    parsed,             \* what the parsing functions made of ai_text
    fetch_failed,       \* history: the sources whose fetch raised in this run
    posts,              \* the POSTs the run has made, in order
    exit_code,          \* exit status of the last run (NoExit: none yet)
    config_file,        \* config.json
    environ,            \* os.environ: the variables RSS_i_NAME, _URL, _ENABLED
    RSS_SUBSCRIPTIONS   \* main.py RSS_SUBSCRIPTIONS = load_subscriptions()

vars == <<disk, feeds, hostTz, now, pc, seen_links, all_articles,
          processed_articles, outcome, loadedSeen, diskAtStart, delivered,
          failedDigest, rss_url, ai_text, parsed, fetch_failed, posts,
          exit_code, config_file, environ, RSS_SUBSCRIPTIONS>>

env == <<feeds, hostTz>>

conf == <<config_file, environ, RSS_SUBSCRIPTIONS>>

\* the variables the run of main() over feeds and seen file leaves alone
ext == <<ai_text, parsed, fetch_failed, conf>>

----------------------------------------------------------------------------
(* Bounds                                                                  *)

MaxEntries == 2     \* entries over all feeds
MaxNow == 2         \* hours the clock may advance

Links == {"a", "b"}
Sources == {"s1", "s2"}
HostTzs == {0 - 8, 0, 8}

(* Program constants *)
MaxHours == 24          \* fetch_rss_articles(..., max_hours=24)
QuietEnd == 9           \* if 0 <= current_hour < 9
DatetimeMin == 0 - 1000000  \* datetime.min, below every modelled time
NoExit == 0 - 1         \* no process has exited yet

Range(f) == {f[i] : i \in DOMAIN f}

----------------------------------------------------------------------------
(* Timestamps.  A `published' string is missing (''), unparseable, an      *)
(* RFC 2822 date with a zone offset (wall clock fields + offset) or one    *)
(* without zone.                                                           *)

Ts(kind, wall, off) == [kind |-> kind, wall |-> wall, off |-> off]
MissingTs == Ts("missing", 0, 0)
BadTs == Ts("bad", 0, 0)

\* the timestamps the feeds draw from: instants 23 h and 25 h before hour 0
Timestamps ==
    { MissingTs, BadTs,
      Ts("aware", (0 - 23) + 8, 8),     \* 23 h before hour 0, written +0800
      Ts("aware", 0 - 25, 0),           \* 25 h before hour 0, written +0000
      Ts("naive", 0 - 23, 0) }          \* no zone in the string

\* email.utils.parsedate_to_datetime: a datetime (aware or naive) or an error
parsedate_to_datetime(s) ==
    CASE s.kind = "aware" -> [kind |-> "aware", wall |-> s.wall, off |-> s.off]
      [] s.kind = "naive" -> [kind |-> "naive", wall |-> s.wall, off |-> 0]
      [] OTHER            -> [kind |-> "error", wall |-> 0, off |-> 0]

\* the instant an aware datetime denotes
UtcOf(dt) == dt.wall - dt.off

\* datetime.now(): naive local wall clock
datetime_now == [kind |-> "naive", wall |-> now + hostTz, off |-> 0]

\* comparing datetimes: aware with aware by instant, naive with naive by
\* wall clock, mixed raises TypeError
Comparable(a, b) == a.kind = b.kind
DtGE(a, b) == IF a.kind = "aware" THEN UtcOf(a) >= UtcOf(b) ELSE a.wall >= b.wall

\* time_threshold.replace(tzinfo=timezone.utc): same wall fields, labelled UTC
ReplaceTzUtc(dt) == [kind |-> "aware", wall |-> dt.wall, off |-> 0]

\* main.py _is_within_time_range(entry, time_threshold)
IsWithinTimeRange(entry, time_threshold) ==
    LET published_str == entry.published
        dt == parsedate_to_datetime(published_str)
        thr == IF dt.kind = "aware" /\ time_threshold.kind = "naive"
               THEN ReplaceTzUtc(time_threshold) ELSE time_threshold
    IN  IF published_str.kind = "missing" THEN FALSE
        ELSE IF dt.kind = "error" THEN FALSE
        ELSE IF ~Comparable(dt, thr) THEN FALSE
        ELSE DtGE(dt, thr)

\* main.py parse_published_time(published): the sort key
parse_published_time(published) ==
    LET dt == parsedate_to_datetime(published)
    IN  IF published.kind = "missing" \/ dt.kind = "error"
        THEN [kind |-> "naive", wall |-> DatetimeMin, off |-> 0]
        ELSE dt

----------------------------------------------------------------------------
(* The seen-links file                                                     *)

(* A file is absent, holds a JSON object (kind "valid", data: the object), *)
(* or holds text that is not JSON: nothing at all (kind "empty", the state *)
(* right after open(.., 'w')) or a prefix of the object (kind "partial").  *)

NoData == [seen_links |-> <<>>, updated_at |-> 0]
AbsentFile == [kind |-> "absent", data |-> NoData]
EmptyFile == [kind |-> "empty", data |-> NoData]
PartialFile == [kind |-> "partial", data |-> NoData]

\* list(seen_links): the elements in some order
ListsOf(S) == {q \in [1..Cardinality(S) -> S] : Range(q) = S}

\* the object json.dump writes in save_seen_articles
SeenFile(lst, t) ==
    [kind |-> "valid", data |-> [seen_links |-> lst, updated_at |-> t]]

\* dict.get(key, default)
DictGet(d, key, default) == IF key \in DOMAIN d THEN d[key] ELSE default

\* json.load raises on text that is not JSON
JsonLoadRaises(file) == file.kind \in {"empty", "partial"}

\* variant: the list is looked up under another key
load_seen_articles_WrongKey(file) ==
    IF file.kind = "absent" THEN {}
    ELSE Range(DictGet(file.data, "seen", <<>>))

\* main.py load_seen_articles() (RSSParser._load_seen_articles is the same
\* code) on a file json.load accepts, or on no file
load_seen_articles(file) ==
    IF file.kind = "absent" THEN {}
    ELSE Range(DictGet(file.data, "seen_links", <<>>))

\* the link set a file holds, for the statements below
LinksIn(file) ==
    IF file.kind = "valid" THEN Range(file.data.seen_links) ELSE {}
LinksOnDisk == LinksIn(disk)

----------------------------------------------------------------------------
(* Collecting                                                              *)

Entry(src, link, published) == [src |-> src, link |-> link, published |-> published]
Entries == {Entry(s, l, p) : s \in Sources, l \in Links, p \in Timestamps}

\* feedparser.parse(url).entries for one source
FeedEntries(s) == SelectSeq(feeds, LAMBDA e : e.src = s)

Article(e) == [link |-> e.link, author |-> e.src, published |-> e.published]

\* variant: the seen check left out
fetch_rss_articles_NoSeenCheck(s, seen, max_hours) ==
    LET time_threshold == [datetime_now EXCEPT !.wall = @ - max_hours]
        new == SelectSeq(FeedEntries(s),
                  LAMBDA e : IsWithinTimeRange(e, time_threshold))
    IN  [i \in 1..Len(new) |-> Article(new[i])]

\* main.py fetch_rss_articles(url, seen_links, max_hours)
fetch_rss_articles(s, seen, max_hours) ==
    LET time_threshold == [datetime_now EXCEPT !.wall = @ - max_hours]
        new == SelectSeq(FeedEntries(s),
                  LAMBDA e : e.link \notin seen
                             /\ IsWithinTimeRange(e, time_threshold))
    IN  [i \in 1..Len(new) |-> Article(new[i])]

active_subscriptions == <<"s1", "s2">>

\* main(): the loop over active_subscriptions extending all_articles
RECURSIVE CollectAll(_, _)
CollectAll(subs, seen) ==
    IF subs = <<>> THEN <<>>
    ELSE fetch_rss_articles(Head(subs), seen, MaxHours) \o CollectAll(Tail(subs), seen)

LinksOf(arts) == {arts[i].link : i \in DOMAIN arts}

----------------------------------------------------------------------------
(* Sorting: all_articles.sort(key=parse_published_time, reverse=True)      *)

SortRaises(arts) ==
    \E i, j \in DOMAIN arts :
        ~Comparable(parse_published_time(arts[i].published),
                    parse_published_time(arts[j].published))

\* key(a) > key(b)
KeyGT(a, b) ==
    LET ka == parse_published_time(a.published)
        kb == parse_published_time(b.published)
    IN  ~DtGE(kb, ka)

\* stable insertion of x into a descending sequence
RECURSIVE InsertDesc(_, _)
InsertDesc(x, s) ==
    IF s = <<>> THEN <<x>>
    ELSE IF KeyGT(x, Head(s)) THEN <<x>> \o s
    ELSE <<Head(s)>> \o InsertDesc(x, Tail(s))

RECURSIVE SortDesc(_)
SortDesc(arts) ==
    IF arts = <<>> THEN <<>>
    ELSE LET n == Len(arts)
         IN  InsertDesc(arts[n], SortDesc(SubSeq(arts, 1, n - 1)))

----------------------------------------------------------------------------
(* Initial state: no process running, some feeds, and a seen file that is  *)
(* absent or was written by an earlier run                                 *)

\* the two enabled subscriptions of the runs of main()
TwoSources ==
    <<[name |-> "s1", url |-> "s1", enabled |-> "true"],
      [name |-> "s2", url |-> "s2", enabled |-> "true"]>>

\* no generation text under study, no failed fetch, the two subscriptions
\* loaded from config.json
ExtUnused ==
    /\ ai_text = <<>>
    /\ parsed = <<>>
    /\ fetch_failed = {}
    /\ posts = <<>>
    /\ exit_code = NoExit
    /\ config_file = [kind |-> "valid",
                      data |-> [rss_subscriptions |-> TwoSources]]
    /\ environ = <<>>
    /\ RSS_SUBSCRIPTIONS = TwoSources

FeedSeqs == UNION {[1..n -> Entries] : n \in 0..MaxEntries}

InitFiles ==
    {AbsentFile} \cup
    {SeenFile(lst, 0 - 1) : lst \in UNION {ListsOf(S) : S \in SUBSET Links}}

Init ==
    /\ disk \in InitFiles
    /\ feeds \in FeedSeqs
    /\ hostTz \in HostTzs
    /\ now = 0
    /\ pc = "idle"
    /\ seen_links = {}
    /\ all_articles = <<>>
    /\ processed_articles = <<>>
    /\ outcome = "none"
    /\ loadedSeen = {}
    /\ diskAtStart = disk
    /\ delivered = {}
    /\ failedDigest = {}
    /\ rss_url = "none"
    /\ ExtUnused

----------------------------------------------------------------------------
(* main()                                                                  *)

\* time passes between two runs
Tick ==
    /\ pc = "idle"
    /\ now < MaxNow
    /\ now' = now + 1
    /\ UNCHANGED <<ext, posts, exit_code, disk, env, pc, seen_links, all_articles,
                   processed_articles, outcome, loadedSeen, diskAtStart,
                   delivered, failedDigest, rss_url>>

\* Step 1: seen_links = load_seen_articles(); json.load raises on a file
\* that is not JSON and the run ends there
LoadSeen ==
    /\ pc = "idle"
    /\ diskAtStart' = disk
    /\ all_articles' = <<>>
    /\ processed_articles' = <<>>
    /\ IF ~JsonLoadRaises(disk)
       THEN /\ seen_links' = load_seen_articles(disk)
            /\ loadedSeen' = load_seen_articles(disk)
            /\ pc' = "loaded"
            /\ outcome' = "running"
            /\ exit_code' = NoExit
       ELSE /\ seen_links' = {}
            /\ loadedSeen' = {}
            /\ pc' = "idle"
            /\ outcome' = "load_error"
            /\ exit_code' = 1
    /\ posts' = <<>>
    /\ failedDigest' = IF outcome = "delivery_failed" THEN failedDigest ELSE {}
    /\ UNCHANGED <<ext, disk, env, now, delivered, rss_url>>

\* Step 3: fetch every active subscription
Collect ==
    /\ pc = "loaded"
    /\ all_articles' = CollectAll(active_subscriptions, seen_links)
    /\ pc' = "collected"
    /\ UNCHANGED <<ext, posts, exit_code, disk, env, now, seen_links, processed_articles, outcome,
                   loadedSeen, diskAtStart, delivered, failedDigest, rss_url>>

\* variant: the quiet hours run through hour QuietEnd
NoNewArticles_QuietThroughNine ==
    /\ pc = "collected"
    /\ all_articles = <<>>
    /\ LET current_hour == (now + hostTz) % 24
       IN  IF 0 <= current_hour /\ current_hour <= QuietEnd
           THEN /\ outcome' = "no_new_quiet"
                /\ posts' = posts
           ELSE /\ \E sent \in BOOLEAN :
                      outcome' = IF sent THEN "no_new_notified"
                                 ELSE "no_new_notify_failed"
                /\ posts' = Append(posts, "no_new")
    /\ exit_code' = 0
    /\ pc' = "idle"
    /\ UNCHANGED <<ext, disk, env, now, seen_links, all_articles,
                   processed_articles, loadedSeen, diskAtStart, delivered,
                   failedDigest, rss_url>>

\* variant: the run without new articles saves the seen set
NoNewArticles_SavesSeen ==
    /\ pc = "collected"
    /\ all_articles = <<>>
    /\ LET current_hour == (now + hostTz) % 24
       IN  IF 0 <= current_hour /\ current_hour < QuietEnd
           THEN /\ outcome' = "no_new_quiet"
                /\ posts' = posts
           ELSE /\ \E sent \in BOOLEAN :
                      outcome' = IF sent THEN "no_new_notified"
                                 ELSE "no_new_notify_failed"
                /\ posts' = Append(posts, "no_new")
    /\ \E lst \in ListsOf(seen_links) : disk' = SeenFile(lst, now + hostTz)
    /\ exit_code' = 0
    /\ pc' = "idle"
    /\ UNCHANGED <<ext, env, now, seen_links, all_articles,
                   processed_articles, loadedSeen, diskAtStart, delivered,
                   failedDigest, rss_url>>

\* `if not all_articles': the run ends with exit(0), silently in the quiet
\* hours and after send_no_new_articles_message otherwise; that function
\* returns True or False, and its result is not looked at
NoNewArticles ==
    /\ pc = "collected"
    /\ all_articles = <<>>
    /\ LET current_hour == (now + hostTz) % 24
       IN  IF 0 <= current_hour /\ current_hour < QuietEnd
           THEN /\ outcome' = "no_new_quiet"
                /\ posts' = posts
           ELSE /\ \E sent \in BOOLEAN :
                      outcome' = IF sent THEN "no_new_notified"
                                 ELSE "no_new_notify_failed"
                /\ posts' = Append(posts, "no_new")
    /\ exit_code' = 0
    /\ pc' = "idle"
    /\ UNCHANGED <<ext, disk, env, now, seen_links, all_articles,
                   processed_articles, loadedSeen, diskAtStart, delivered,
                   failedDigest, rss_url>>

\* Step 4 and the per-article loop: sort, then every article is appended to
\* processed_articles; a TypeError of the sort ends the run
Process ==
    /\ pc = "collected"
    /\ all_articles # <<>>
    /\ IF SortRaises(all_articles)
       THEN /\ pc' = "idle"
            /\ outcome' = "sort_error"
            /\ exit_code' = 1
            /\ processed_articles' = <<>>
       ELSE /\ pc' = "processed"
            /\ outcome' = outcome
            /\ exit_code' = exit_code
            /\ processed_articles' = SortDesc(all_articles)
    /\ posts' = posts
    /\ UNCHANGED <<ext, disk, env, now, seen_links, all_articles,
                   loadedSeen, diskAtStart, delivered, failedDigest, rss_url>>

\* variant: the run goes on to the delivery when create_gist returned None
CreateGist_DeliverAnyway ==
    /\ pc = "processed"
    /\ \E gist_ok \in BOOLEAN :
          IF gist_ok
          THEN pc' = "archived" /\ outcome' = outcome /\ exit_code' = exit_code
          ELSE pc' = "archived" /\ outcome' = "gist_failed" /\ exit_code' = exit_code
    /\ posts' = Append(posts, "gist")
    /\ UNCHANGED <<ext, disk, env, now, seen_links, all_articles,
                   processed_articles, loadedSeen, diskAtStart, delivered,
                   failedDigest, rss_url>>

\* create_gist: the archive POST returns a URL or None; None ends the run
CreateGist ==
    /\ pc = "processed"
    /\ \E gist_ok \in BOOLEAN :
          IF gist_ok
          THEN pc' = "archived" /\ outcome' = outcome /\ exit_code' = exit_code
          ELSE pc' = "idle" /\ outcome' = "gist_failed" /\ exit_code' = 1
    /\ posts' = Append(posts, "gist")
    /\ UNCHANGED <<ext, disk, env, now, seen_links, all_articles,
                   processed_articles, loadedSeen, diskAtStart, delivered,
                   failedDigest, rss_url>>

\* variant: the loaded links are dropped
MergeDelivered_OnlyDigest(seen, processed) == LinksOf(processed)

\* Step 8: seen_links.add(article['link']) for the digest
MergeDelivered(seen, processed) == seen \cup LinksOf(processed)

\* save_seen_articles(seen_links): full overwrite of the file
save_seen_articles(seen) ==
    \E lst \in ListsOf(seen) : disk' = SeenFile(lst, now + hostTz)

\* variant: the file is saved whatever the delivery returned
Deliver_SaveOnFailure ==
    /\ pc = "archived"
    /\ \E success \in BOOLEAN :
          /\ seen_links' = MergeDelivered(seen_links, processed_articles)
          /\ save_seen_articles(seen_links')
          /\ IF success
             THEN /\ delivered' = delivered \cup LinksOf(processed_articles)
                  /\ failedDigest' = {}
                  /\ outcome' = "success"
             ELSE /\ UNCHANGED delivered
                  /\ failedDigest' = LinksOf(processed_articles)
                  /\ outcome' = "delivery_failed"
    /\ pc' = "idle"
    /\ posts' = Append(posts, "delivery")
    /\ exit_code' = 0
    /\ UNCHANGED <<ext, env, now, all_articles, processed_articles,
                   loadedSeen, diskAtStart, rss_url>>

\* send_to_wechat_with_gist_link and the branch on its result
Deliver ==
    /\ pc = "archived"
    /\ \E success \in BOOLEAN :
          IF success
          THEN /\ seen_links' = MergeDelivered(seen_links, processed_articles)
               /\ save_seen_articles(seen_links')
               /\ delivered' = delivered \cup LinksOf(processed_articles)
               /\ failedDigest' = {}
               /\ outcome' = "success"
          ELSE /\ UNCHANGED <<seen_links, disk, delivered>>
               /\ failedDigest' = LinksOf(processed_articles)
               /\ outcome' = "delivery_failed"
    /\ pc' = "idle"
    /\ posts' = Append(posts, "delivery")
    /\ exit_code' = 0
    /\ UNCHANGED <<ext, env, now, all_articles, processed_articles,
                   loadedSeen, diskAtStart, rss_url>>

Next ==
    \/ Tick
    \/ LoadSeen
    \/ Collect
    \/ NoNewArticles
    \/ Process
    \/ CreateGist
    \/ Deliver

Spec == Init /\ [][Next]_vars

----------------------------------------------------------------------------
(* Statements about main()                                                 *)

\* the threshold of a fetch at the current hour
ThresholdNow == [datetime_now EXCEPT !.wall = @ - MaxHours]

\* C1: the seen file is written only after the delivery returned success:
\* during a run, and after a run that ended any other way than by a
\* successful delivery, the file is the file the run started with.
C1_SeenFileWrittenOnlyAfterSuccess ==
    outcome # "success" => disk = diskAtStart

\* a run whose delivery failed has ended, with a digest, over an existing file
C1_Witness ==
    /\ pc = "idle"
    /\ outcome = "delivery_failed"
    /\ processed_articles # <<>>
    /\ disk.kind = "valid"

\* C2: no link of the loaded seen set is among the candidates, so a run
\* over a feed whose links are all in the seen set has zero candidates.
C2_SeenLinksNeverCollected ==
    /\ \A i \in DOMAIN all_articles : all_articles[i].link \notin loadedSeen
    /\ (pc = "collected" /\ LinksOf(feeds) \subseteq loadedSeen)
          => all_articles = <<>>

\* a later run over the feed whose links were all delivered before collects
\* nothing, although an entry of the feed is still inside the time window
C2_Witness ==
    /\ pc = "collected"
    /\ all_articles = <<>>
    /\ feeds # <<>>
    /\ delivered # {}
    /\ LinksOf(feeds) \subseteq delivered
    /\ LinksOf(feeds) \subseteq loadedSeen
    /\ \E i \in DOMAIN feeds : IsWithinTimeRange(feeds[i], ThresholdNow)

\* C3: after a run whose delivery failed, every article of that run's
\* digest is a candidate of the next run over the same feed.
C3_FailedDigestIsCandidateAgain ==
    pc = "collected" => failedDigest \subseteq LinksOf(all_articles)

\* C5: after a run whose delivery succeeded the file holds the loaded set
\* united with the links of the digest, and it has grown by the number of
\* articles of the digest.
C5_SeenGrowsByDigest ==
    (pc = "idle" /\ outcome = "success") =>
        /\ LinksOnDisk = loadedSeen \cup LinksOf(processed_articles)
        /\ Cardinality(LinksOnDisk) =
              Cardinality(loadedSeen) + Len(processed_articles)

\* C6: no two candidates of a run have the same link.
C6_CandidateLinksUnique ==
    \A i, j \in DOMAIN all_articles :
        all_articles[i].link = all_articles[j].link => i = j

\* C7: no step removes a link from the seen file: the links on disk after
\* a step include the links on disk before it.
C7_SeenOnlyGrows == [][LinksOnDisk \subseteq LinksOnDisk']_vars

\* a successful run has added links to a file that already held some, and
\* the old ones are still there
C7_Witness ==
    /\ pc = "idle"
    /\ outcome = "success"
    /\ loadedSeen # {}
    /\ loadedSeen \subseteq LinksOnDisk
    /\ LinksOnDisk # loadedSeen

\* C10: with max_hours = 24, whatever the host zone and the offset written
\* in the timestamp, an entry published 25 hours before now is not a
\* candidate, an unseen entry published 23 hours before now is one, and an
\* entry with a missing or unparseable timestamp is not.
C10_TimeWindow ==
    pc = "collected" =>
        \A i \in DOMAIN feeds :
            LET e == feeds[i]
                isCandidate == Article(e) \in Range(all_articles)
            IN  /\ (e.published.kind = "aware" /\ now - UtcOf(e.published) = 25)
                      => ~isCandidate
                /\ (e.published.kind = "aware" /\ now - UtcOf(e.published) = 23
                      /\ e.link \notin loadedSeen)
                      => isCandidate
                /\ e.published.kind \in {"missing", "bad"} => ~isCandidate

----------------------------------------------------------------------------
(* A run that dies while save_seen_articles is writing: open(.., 'w') has  *)
(* truncated the file and json.dump has written nothing or a prefix.       *)

DeliverCrashInSave ==
    /\ pc = "archived"
    /\ seen_links' = MergeDelivered(seen_links, processed_articles)
    /\ disk' \in {EmptyFile, PartialFile}
    /\ delivered' = delivered \cup LinksOf(processed_articles)
    /\ failedDigest' = {}
    /\ outcome' = "crash_in_save"
    /\ pc' = "idle"
    /\ posts' = Append(posts, "delivery")
    /\ exit_code' = 1
    /\ UNCHANGED <<ext, env, now, all_articles, processed_articles,
                   loadedSeen, diskAtStart, rss_url>>

NextCrash ==
    \/ Tick
    \/ LoadSeen
    \/ Collect
    \/ NoNewArticles
    \/ Process
    \/ CreateGist
    \/ Deliver
    \/ DeliverCrashInSave

SpecCrash == Init /\ [][NextCrash]_vars

\* C8: a crash during the save leaves the previously saved file intact, so
\* the next load returns the previous set.
C8_CrashKeepsPreviousFile ==
    (outcome = "crash_in_save" /\ diskAtStart.kind = "valid") =>
        /\ disk = diskAtStart
        /\ ~JsonLoadRaises(disk)
        /\ load_seen_articles(disk) = loadedSeen

----------------------------------------------------------------------------
(* RSSParser (src/rss_parser.py)                                           *)

NoCap == 0 - 1      \* max_articles = None

\* feedparser's entry.published_parsed: the time in UTC, or nothing when the
\* string does not parse (value DatetimeMin); a string without zone is read
\* as UTC
HasPublishedParsed(e) == e.published.kind \in {"aware", "naive"}
published_parsed(e) ==
    IF e.published.kind = "aware" THEN UtcOf(e.published) ELSE e.published.wall

\* time.mktime reads its argument as local time; datetime.fromtimestamp
\* gives the local wall clock of an instant
mktime(st) == st - hostTz
fromtimestamp(t) == [kind |-> "naive", wall |-> t + hostTz, off |-> 0]

\* RSSParser._is_within_time_range(entry, time_threshold)
ParserIsWithinTimeRange(e, time_threshold) ==
    IF HasPublishedParsed(e)
    THEN DtGE(fromtimestamp(mktime(published_parsed(e))), time_threshold)
    ELSE TRUE

ParserArticle(e) == [link |-> e.link, author |-> "Unknown", published |-> e.published]

\* the loop of RSSParser.fetch_articles over the remaining entries es
RECURSIVE FetchLoop(_, _, _, _, _)
FetchLoop(es, articles, seen, max_articles, time_threshold) ==
    IF es = <<>> THEN [articles |-> articles, seen |-> seen]
    ELSE LET e == Head(es)
         IN  IF e.link \notin seen /\ ParserIsWithinTimeRange(e, time_threshold)
             THEN LET articles2 == Append(articles, ParserArticle(e))
                      seen2 == seen \cup {e.link}
                  IN  IF max_articles # NoCap /\ Len(articles2) >= max_articles
                      THEN [articles |-> articles2, seen |-> seen2]
                      ELSE FetchLoop(Tail(es), articles2, seen2, max_articles,
                                     time_threshold)
             ELSE FetchLoop(Tail(es), articles, seen, max_articles, time_threshold)

\* RSSParser.__init__: self.seen_articles = self._load_seen_articles()
ParserInit ==
    /\ pc = "idle"
    /\ diskAtStart' = disk
    /\ all_articles' = <<>>
    /\ processed_articles' = <<>>
    /\ failedDigest' = {}
    /\ IF ~JsonLoadRaises(disk)
       THEN /\ \E url \in Sources : rss_url' = url
            /\ seen_links' = load_seen_articles(disk)
            /\ loadedSeen' = load_seen_articles(disk)
            /\ pc' = "parser"
            /\ outcome' = "running"
       ELSE /\ rss_url' = "none"
            /\ seen_links' = {}
            /\ loadedSeen' = {}
            /\ pc' = "idle"
            /\ outcome' = "load_error"
    /\ UNCHANGED <<ext, posts, exit_code, disk, env, now, delivered>>

\* RSSParser.fetch_articles(max_articles, max_hours=24), the save included
ParserFetch ==
    /\ pc = "parser"
    /\ \E max_articles \in {NoCap} \cup (0..MaxEntries) :
          LET time_threshold == [datetime_now EXCEPT !.wall = @ - MaxHours]
              r == FetchLoop(FeedEntries(rss_url), <<>>, seen_links,
                             max_articles, time_threshold)
          IN  /\ all_articles' = r.articles
              /\ seen_links' = r.seen
              /\ IF r.articles # <<>>
                 THEN save_seen_articles(r.seen)
                 ELSE disk' = disk
    /\ UNCHANGED <<ext, posts, exit_code, env, now, pc, processed_articles, outcome, loadedSeen,
                   diskAtStart, delivered, failedDigest, rss_url>>

\* the process that holds the parser object ends
ParserExit ==
    /\ pc = "parser"
    /\ pc' = "idle"
    /\ rss_url' = "none"
    /\ outcome' = "parser_done"
    /\ UNCHANGED <<ext, posts, exit_code, disk, env, now, seen_links, all_articles,
                   processed_articles, loadedSeen, diskAtStart, delivered,
                   failedDigest>>

NextParser ==
    \/ Tick
    \/ ParserInit
    \/ ParserFetch
    \/ ParserExit

SpecParser == Init /\ [][NextParser]_vars

\* C4: a link is in the in-memory seen set, and in the file, only if it was
\* loaded at the start or its article was successfully delivered.
C4_SeenOnlyAfterDelivery ==
    /\ seen_links \subseteq loadedSeen \cup delivered
    /\ LinksOnDisk \subseteq LinksIn(diskAtStart) \cup delivered

----------------------------------------------------------------------------
(* The seen store by itself: save a set, load it back                      *)

StoreLinks == {"a", "b", "c"}

InitStore ==
    /\ disk = AbsentFile
    /\ feeds = <<>>
    /\ hostTz \in HostTzs
    /\ now \in 0..MaxNow
    /\ pc = "store"
    /\ seen_links \in SUBSET StoreLinks
    /\ all_articles = <<>>
    /\ processed_articles = <<>>
    /\ outcome = "none"
    /\ loadedSeen = {}
    /\ diskAtStart = AbsentFile
    /\ delivered = {}
    /\ failedDigest = {}
    /\ rss_url = "none"
    /\ ExtUnused

\* save_seen_articles(seen_links)
StoreSave ==
    /\ pc = "store"
    /\ save_seen_articles(seen_links)
    /\ pc' = "store_saved"
    /\ UNCHANGED <<ext, posts, exit_code, env, now, seen_links, all_articles, processed_articles,
                   outcome, loadedSeen, diskAtStart, delivered, failedDigest,
                   rss_url>>

\* load_seen_articles(), after a save or with no file
StoreLoad ==
    /\ pc \in {"store", "store_saved"}
    /\ loadedSeen' = load_seen_articles(disk)
    /\ outcome' = IF pc = "store" THEN "loaded_no_file" ELSE "loaded_saved"
    /\ pc' = "store_loaded"
    /\ UNCHANGED <<ext, posts, exit_code, disk, env, now, seen_links, all_articles,
                   processed_articles, diskAtStart, delivered, failedDigest,
                   rss_url>>

NextStore ==
    \/ StoreSave
    \/ StoreLoad

SpecStore == InitStore /\ [][NextStore]_vars

\* C9: loading after saving S returns exactly S; loading with no file
\* returns the empty set.
C9_SeenRoundTrip ==
    pc = "store_loaded" =>
        /\ outcome = "loaded_saved" => loadedSeen = seen_links
        /\ outcome = "loaded_no_file" => loadedSeen = {}

\* a set of two or more links was saved and loaded back
C9_Witness ==
    /\ pc = "store_loaded"
    /\ outcome = "loaded_saved"
    /\ disk.kind = "valid"
    /\ Cardinality(seen_links) >= 2

----------------------------------------------------------------------------
(* Generation texts.  A text is a sequence of tokens: the two markers, the *)
(* newline, the space, the three list punctuations of the split pattern,   *)
(* and words (runs of other characters).  `.' of a pattern without DOTALL  *)
(* matches every token but the newline.                                    *)

TagMarker == "TAG"          \* '【标签】'
SummaryMarker == "SUM"      \* '【总结】'
NL == "NL"                  \* '\n'
SP == "SP"                  \* ' '
Dun == "DUN"                \* '、'
Comma == "COMMA"            \* ','
FullComma == "FCOMMA"       \* '，'

Whitespace == {NL, SP}
SplitDelims == {Dun, Comma, FullComma} \cup Whitespace

SetMin(S) == CHOOSE x \in S : \A y \in S : x <= y
SetMax(S) == CHOOSE x \in S : \A y \in S : x >= y

\* str.strip()
strip(s) ==
    LET keep == {i \in DOMAIN s : s[i] \notin Whitespace}
    IN  IF keep = {} THEN <<>> ELSE SubSeq(s, SetMin(keep), SetMax(keep))

\* the non-empty pieces of s between tokens of D, in order
RECURSIVE SplitOn(_, _)
SplitOn(s, D) ==
    IF s = <<>> THEN <<>>
    ELSE IF Head(s) \in D THEN SplitOn(Tail(s), D)
    ELSE LET n == SetMin({k \in 1..Len(s) : k = Len(s) \/ s[k + 1] \in D})
         IN  <<SubSeq(s, 1, n)>> \o SplitOn(SubSeq(s, n + 1, Len(s)), D)

\* (?=【总结】|\n\n|$) at the position after token e
TagLookahead(s, e) ==
    \/ e = Len(s)
    \/ e + 1 = Len(s) /\ s[e + 1] = NL
    \/ e < Len(s) /\ s[e + 1] = SummaryMarker
    \/ e + 2 <= Len(s) /\ s[e + 1] = NL /\ s[e + 2] = NL

\* the ends e of a match of 【标签】(.+?)(?=...) that starts at p
TagEnds(s, p) ==
    {e \in (p + 1)..Len(s) :
        /\ \A i \in (p + 1)..e : s[i] # NL
        /\ TagLookahead(s, e)}

\* re.search(r'【标签】(.+?)(?=【总结】|\n\n|$)', ai_text): group(1) of the
\* leftmost match, the shortest at that start; <<>> stands for no match
\* (a match is never empty)
TagSearch(s) ==
    LET starts == {p \in DOMAIN s : s[p] = TagMarker /\ TagEnds(s, p) # {}}
    IN  IF starts = {} THEN <<>>
        ELSE LET p == SetMin(starts)
             IN  SubSeq(s, p + 1, SetMin(TagEnds(s, p)))

\* the positions j of the '\n' of 【总结】\s*\n(.+) for a match starting at p
SummaryNewlines(s, p) ==
    {j \in (p + 1)..(Len(s) - 1) :
        /\ s[j] = NL
        /\ \A i \in (p + 1)..(j - 1) : s[i] \in Whitespace}

\* re.search(r'【总结】\s*\n(.+)', ai_text, re.DOTALL) finds a match
SummaryFound(s) ==
    \E p \in DOMAIN s : s[p] = SummaryMarker /\ SummaryNewlines(s, p) # {}

\* its group(1): \s* is greedy, (.+) runs to the end of the text
SummarySearch(s) ==
    LET p == SetMin({q \in DOMAIN s :
                        s[q] = SummaryMarker /\ SummaryNewlines(s, q) # {}})
    IN  SubSeq(s, SetMax(SummaryNewlines(s, p)) + 1, Len(s))

\* re.sub(r'【标签】.+', '', ai_text): every marker followed by at least one
\* token of its line goes, with the rest of that line
RECURSIVE RemoveTagLines(_)
RemoveTagLines(s) ==
    IF s = <<>> THEN <<>>
    ELSE IF Head(s) = TagMarker /\ Len(s) >= 2 /\ s[2] # NL
    THEN LET nls == {i \in DOMAIN s : s[i] = NL}
         IN  IF nls = {} THEN <<>>
             ELSE RemoveTagLines(SubSeq(s, SetMin(nls), Len(s)))
    ELSE <<Head(s)>> \o RemoveTagLines(Tail(s))

\* the summary half shared by _parse_ai_response and summarize_article
ParseSummary(s) ==
    IF SummaryFound(s) THEN strip(SummarySearch(s))
    ELSE strip(RemoveTagLines(s))

----------------------------------------------------------------------------
(* Categories out of a generation text                                     *)

MaxCategories == 5      \* categories = categories[:5]
MaxGenerated == 3       \* return categories[:3]

\* list(set(...))[:cap]: the set in some order, then the first cap of it
ListsOfSet(S, cap) ==
    LET k == IF Cardinality(S) < cap THEN Cardinality(S) ELSE cap
    IN  {q \in [1..k -> S] : \A i, j \in 1..k : i # j => q[i] # q[j]}

\* tag_text split on [、,，\s]+, empty pieces dropped, as a set
TagSet(s) ==
    IF TagSearch(s) = <<>> THEN {}
    ELSE Range(SplitOn(strip(TagSearch(s)), SplitDelims))

\* _parse_ai_response with the slice categories[:5] left out
parse_ai_response_NoCap(s) ==
    {[summary |-> ParseSummary(s), categories |-> q] :
        q \in ListsOfSet(TagSet(s), Cardinality(TagSet(s)))}

\* _parse_ai_response(ai_text): the results it can return (the order of
\* list(set(...)) is not fixed)
parse_ai_response(s) ==
    {[summary |-> ParseSummary(s), categories |-> q] :
        q \in ListsOfSet(TagSet(s), MaxCategories)}

\* [c.strip() for c in text.split('、') if c.strip()]
RECURSIVE StripEach(_)
StripEach(pieces) ==
    IF pieces = <<>> THEN <<>>
    ELSE IF strip(Head(pieces)) = <<>> THEN StripEach(Tail(pieces))
    ELSE <<strip(Head(pieces))>> \o StripEach(Tail(pieces))

\* generate_categories on a 200 response with this text
generate_categories(text) ==
    LET categories == StripEach(SplitOn(strip(text), {Dun}))
    IN  SubSeq(categories, 1,
               IF Len(categories) < MaxGenerated THEN Len(categories)
               ELSE MaxGenerated)

\* summarize_article on a 200 response with this text
summarize_article(text) == ParseSummary(strip(text))

NoDuplicates(q) == \A i, j \in DOMAIN q : i # j => q[i] # q[j]

----------------------------------------------------------------------------
(* The texts put to the parsing functions: the layout the prompts ask for, *)
(* with up to MaxTags tags, and every short text                           *)

MaxTags == 6        \* tags in a tag list
MaxTextLen == 4     \* tokens in a free text

Word(i) == ToString(i)

TagLists ==
    {[i \in 1..n |-> Word(i)] : n \in 1..MaxTags} \cup
    UNION {[1..n -> {Word(1), Word(2)}] : n \in 2..3}

ListDelims == {<<Dun>>, <<Comma>>, <<FullComma>>, <<SP>>}

Bodies ==
    {<<"Line1">>, <<"Line1", NL, "Line2">>, <<"Line1", NL, NL, "Line2">>}

RECURSIVE Join(_, _)
Join(list, d) ==
    IF Len(list) <= 1 THEN list
    ELSE <<Head(list)>> \o d \o Join(Tail(list), d)

\* 【标签】t1、t2、t3 \n\n 【总结】\n body
Canonical(tags, d, body) ==
    <<TagMarker>> \o Join(tags, d) \o <<NL, NL, SummaryMarker, NL>> \o body

CanonicalTexts ==
    {Canonical(t, d, b) : t \in TagLists, d \in ListDelims, b \in Bodies}

\* what may stand between the tag line and the summary marker: nothing, a
\* single newline, a blank line
TagLineEnds == {<<>>, <<NL>>, <<NL, NL>>}

\* 【标签】t1、t2 <end> 【总结】\n body
Layout(tags, d, end, body) ==
    <<TagMarker>> \o Join(tags, d) \o end \o <<SummaryMarker, NL>> \o body

LayoutTexts ==
    {Layout(t, d, e, b) :
        t \in TagLists, d \in ListDelims, e \in TagLineEnds, b \in Bodies}

\* the separators of a tag section that runs over several lines
SectionDelims == ListDelims \cup {<<NL>>, <<Dun, NL>>}

\* a tag section, a blank line and the remaining text; no summary marker
NoSummaryMarker(tags, d, body) ==
    <<TagMarker>> \o Join(tags, d) \o <<NL, NL>> \o body

NoSummaryMarkerTexts ==
    {NoSummaryMarker(t, d, b) :
        t \in TagLists, d \in SectionDelims, b \in Bodies}

FreeTokens == {TagMarker, SummaryMarker, NL, Dun, Word(1), Word(2)}
FreeTexts == UNION {[1..n -> FreeTokens] : n \in 0..MaxTextLen}

\* the seen file, the feeds and the run of main() play no part
MainUnused ==
    /\ disk = AbsentFile
    /\ feeds = <<>>
    /\ hostTz = 0
    /\ now = 0
    /\ seen_links = {}
    /\ all_articles = <<>>
    /\ processed_articles = <<>>
    /\ outcome = "none"
    /\ loadedSeen = {}
    /\ diskAtStart = AbsentFile
    /\ delivered = {}
    /\ failedDigest = {}
    /\ rss_url = "none"

mainVars == <<disk, feeds, hostTz, now, seen_links, all_articles,
          processed_articles, outcome, loadedSeen, diskAtStart, delivered,
          failedDigest, rss_url>>

InitParse ==
    /\ MainUnused
    /\ pc = "text"
    /\ ai_text \in CanonicalTexts \cup LayoutTexts \cup NoSummaryMarkerTexts
                 \cup FreeTexts
    /\ parsed = <<>>
    /\ fetch_failed = {}
    /\ posts = <<>>
    /\ exit_code = NoExit
    /\ config_file = [kind |-> "valid",
                      data |-> [rss_subscriptions |-> TwoSources]]
    /\ environ = <<>>
    /\ RSS_SUBSCRIPTIONS = TwoSources

\* AIArticleProcessor._parse_ai_response / AISummarizer._parse_ai_response
ParseResponse ==
    /\ pc = "text"
    /\ \E r \in parse_ai_response(ai_text) :
          parsed' = [fn |-> "parse_ai_response", summary |-> r.summary,
                     categories |-> r.categories]
    /\ pc' = "parsed"
    /\ UNCHANGED <<mainVars, fetch_failed, posts, exit_code, conf, ai_text>>

\* main.py generate_categories, status 200
GenerateCategories ==
    /\ pc = "text"
    /\ parsed' = [fn |-> "generate_categories", summary |-> <<>>,
                  categories |-> generate_categories(ai_text)]
    /\ pc' = "parsed"
    /\ UNCHANGED <<mainVars, fetch_failed, posts, exit_code, conf, ai_text>>

\* main.py summarize_article, status 200
SummarizeArticle ==
    /\ pc = "text"
    /\ parsed' = [fn |-> "summarize_article",
                  summary |-> summarize_article(ai_text), categories |-> <<>>]
    /\ pc' = "parsed"
    /\ UNCHANGED <<mainVars, fetch_failed, posts, exit_code, conf, ai_text>>

NextParse ==
    \/ ParseResponse
    \/ GenerateCategories
    \/ SummarizeArticle

SpecParse == InitParse /\ [][NextParse]_vars

\* C12: every category list the program produces has at most 5 entries and
\* no entry twice, from _parse_ai_response and from generate_categories
\* alike.
C12_CategoriesCappedAndDistinct ==
    (pc = "parsed" /\ parsed.fn \in {"parse_ai_response", "generate_categories"})
        => /\ Len(parsed.categories) <= MaxCategories
           /\ NoDuplicates(parsed.categories)

TagsOf(t) == {<<t[i]>> : i \in DOMAIN t}

----------------------------------------------------------------------------
(* The keyword classifier of main.py.  A title or body is the set of the   *)
(* keyword phrases written in it; `kw in text' holds when kw is one of     *)
(* them or a substring of one of them.  The table is a part of             *)
(* _default_noise_keywords, each list in the order of the source:          *)
(*   zhaopin 招聘: 诚聘, 热招                                              *)
(*   daihuo  带货: 特价, 清仓, 立减, 特价 (特价 is listed twice)           *)
(*   kecheng 课程: 限时特价, 立减                                          *)
(*   rongzi  融资: 轮融资, 估值                                            *)
(* Scores are in tenths, so that 2.5 is the integer 25.                    *)

noise_keywords ==
    [zhaopin |-> <<"chengpin", "rezhao">>,
     daihuo  |-> <<"tejia", "qingcang", "lijian", "tejia">>,
     kecheng |-> <<"xianshitejia", "lijian">>,
     rongzi  |-> <<"lunrongzi", "guzhi">>]

NoiseTypes == DOMAIN noise_keywords
Keywords == UNION {Range(noise_keywords[X]) : X \in NoiseTypes}

MaxKw == 3          \* keyword phrases in one title or body

Texts == {t \in SUBSET Keywords : Cardinality(t) <= MaxKw}

\* 限时特价 contains 特价
SubstringOf(kw, phrase) ==
    kw = phrase \/ (kw = "tejia" /\ phrase = "xianshitejia")

\* kw in text
KwIn(kw, text) == \E phrase \in text : SubstringOf(kw, phrase)

\* [kw for kw in keywords if kw in text]
Matches(X, text) == SelectSeq(noise_keywords[X], LAMBDA kw : KwIn(kw, text))

TitleWeight == 25       \* title_count * 2.5
ContentWeight == 10     \* + content_count
KeepAt == 20            \* if weighted_count >= 2
HeavyAt == 50           \* max_count >= 5
HeavyWithTitleAt == 40  \* max_count >= 4 and len(title_kw) >= 2
LightAt == 25           \* max_count >= 2.5

weighted_count(X, title, content) ==
    Len(Matches(X, title)) * TitleWeight + Len(Matches(X, content)) * ContentWeight

\* the keys of all_matches
all_matches(title, content) ==
    {X \in NoiseTypes : weighted_count(X, title, content) >= KeepAt}

\* the types max() can return: the order of all_matches is the order of a
\* set of strings, so among equal scores any one can come first
MaxTypes(title, content) ==
    {X \in all_matches(title, content) :
        \A Y \in all_matches(title, content) :
            weighted_count(Y, title, content) <= weighted_count(X, title, content)}

NoNoise == [noise_level |-> "none", noise_type |-> "none"]

\* detect_noise with the light level given from 2.0 on
Judge_LightAtKeep(max_type, title, content) ==
    LET max_count == weighted_count(max_type, title, content)
    IN  IF \/ max_count >= HeavyAt
           \/ max_count >= HeavyWithTitleAt /\ Len(Matches(max_type, title)) >= 2
        THEN [noise_level |-> "heavy", noise_type |-> max_type]
        ELSE IF max_count >= KeepAt
        THEN [noise_level |-> "light", noise_type |-> max_type]
        ELSE NoNoise

\* detect_noise with the heavy level given from 4.0 on
Judge_HeavyFromFour(max_type, title, content) ==
    LET max_count == weighted_count(max_type, title, content)
    IN  IF max_count >= HeavyWithTitleAt
        THEN [noise_level |-> "heavy", noise_type |-> max_type]
        ELSE IF max_count >= LightAt
        THEN [noise_level |-> "light", noise_type |-> max_type]
        ELSE NoNoise

\* the three-way test on max_count
Judge(max_type, title, content) ==
    LET max_count == weighted_count(max_type, title, content)
    IN  IF \/ max_count >= HeavyAt
           \/ max_count >= HeavyWithTitleAt /\ Len(Matches(max_type, title)) >= 2
        THEN [noise_level |-> "heavy", noise_type |-> max_type]
        ELSE IF max_count >= LightAt
        THEN [noise_level |-> "light", noise_type |-> max_type]
        ELSE NoNoise

\* detect_noise(title, content): the results it can return
detect_noise(title, content) ==
    IF all_matches(title, content) = {} THEN {NoNoise}
    ELSE {Judge(X, title, content) : X \in MaxTypes(title, content)}

----------------------------------------------------------------------------
(* The loop of main() over the sorted candidates: detect_noise, then, unless *)
(* the level is heavy, generate_categories and summarize_article, each one *)
(* call of the generation API.                                             *)

MaxBatch == 2       \* articles in one run of the loop

\* what Generation.call does: a 200 response with a text, another status,
\* or an exception
Responses ==
    {[status |-> "ok", text |-> t] :
        t \in {Canonical(<<Word(1), Word(2)>>, <<Dun>>, <<"Line1">>),
               <<Word(1), Dun, Word(1)>>}}
    \cup {[status |-> "error", text |-> <<>>], [status |-> "raise", text |-> <<>>]}

\* the article has no key 'ai_summary'
NoSummary == [prompt |-> "none", origin |-> "absent", text |-> <<>>]

\* the article has no key 'categories'
NoCategories == <<>>

\* summarize_article(content, title): the summary of the response, or
\* content[:200] + "..." when the call fails
SummaryOf(resp) ==
    IF resp.status = "ok"
    THEN [prompt |-> "full", origin |-> "generated",
          text |-> summarize_article(resp.text)]
    ELSE [prompt |-> "full", origin |-> "content_prefix", text |-> <<>>]

\* generate_categories(title, content): [] when the call fails
CategoriesOf(resp) ==
    IF resp.status = "ok" THEN generate_categories(resp.text) ELSE <<>>

NewArticle(link, title, content) ==
    [link |-> link, title |-> title, content |-> content]

\* a few titles and bodies for the runs over two articles
BatchTexts == {{}, {"chengpin"}, {"chengpin", "rezhao"}}

\* one article with any title and body, or several with those titles
ProcessBatches ==
    {<<NewArticle(Word(1), t, c)>> : t \in Texts, c \in Texts}
    \cup UNION {{[i \in 1..n |-> NewArticle(Word(i), ts[i], {})] :
                    ts \in [1..n -> BatchTexts]} : n \in 2..MaxBatch}

Processed(article, noise, cat_status, categories, sum_status, ai_summary) ==
    [link |-> article.link, title |-> article.title,
     content |-> article.content,
     noise_level |-> noise.noise_level, noise_type |-> noise.noise_type,
     cat_status |-> cat_status, categories |-> categories,
     sum_status |-> sum_status, ai_summary |-> ai_summary]

InitProcess ==
    /\ disk = AbsentFile
    /\ feeds = <<>>
    /\ hostTz = 0
    /\ now = 0
    /\ pc = "processing"
    /\ seen_links = {}
    /\ all_articles \in ProcessBatches
    /\ processed_articles = <<>>
    /\ outcome = "running"
    /\ loadedSeen = {}
    /\ diskAtStart = AbsentFile
    /\ delivered = {}
    /\ failedDigest = {}
    /\ rss_url = "none"
    /\ ExtUnused

\* one pass of the loop `for i, article in enumerate(all_articles, 1)'
ProcessArticle ==
    /\ pc = "processing"
    /\ Len(processed_articles) < Len(all_articles)
    /\ LET article == all_articles[Len(processed_articles) + 1]
       IN  \E noise \in detect_noise(article.title, article.content) :
           IF noise.noise_level = "heavy"
           THEN processed_articles' = Append(processed_articles,
                    Processed(article, noise, "none", NoCategories,
                              "none", NoSummary))
           ELSE \E cat \in Responses, sum \in Responses :
                    processed_articles' = Append(processed_articles,
                        Processed(article, noise, cat.status, CategoriesOf(cat),
                                  sum.status, SummaryOf(sum)))
    /\ UNCHANGED <<ext, posts, exit_code, disk, env, now, pc, seen_links, all_articles, outcome,
                   loadedSeen, diskAtStart, delivered, failedDigest, rss_url>>

\* the loop is over: the digest is formatted from processed_articles
ProcessDone ==
    /\ pc = "processing"
    /\ Len(processed_articles) = Len(all_articles)
    /\ pc' = "processed"
    /\ UNCHANGED <<ext, posts, exit_code, disk, env, now, seen_links, all_articles,
                   processed_articles, outcome, loadedSeen, diskAtStart,
                   delivered, failedDigest, rss_url>>

NextProcess ==
    \/ ProcessArticle
    \/ ProcessDone

SpecProcess == InitProcess /\ [][NextProcess]_vars

\* the articles of the digest under construction
Digest == Range(processed_articles)

\* C11: every classified article has noise_level none, light, noise or pr,
\* and no other value reaches the digest.
C11_NoiseLevelDomain ==
    \A a \in Digest : a.noise_level \in {"none", "light", "noise", "pr"}

\* C13: every article of level none or light gets a full summary, every
\* article of level noise (heavy) or pr gets an abbreviated summary; so every
\* article of the digest has a summary.
C13_TwoWaySummaryBranch ==
    \A a \in Digest :
        /\ a.noise_level \in {"none", "light"} => a.ai_summary.prompt = "full"
        /\ a.noise_level \in {"noise", "heavy", "pr"}
              => a.ai_summary.prompt = "abbreviated"
        /\ a.ai_summary.origin # "absent"

\* C14: for every category X, a title with 2 distinct keywords of X and a
\* body with no keyword scores 5.0 for X and is classified heavy with
\* noise_type X.
C14_TwoTitleKeywordsHeavy ==
    \A a \in Digest : \A X \in NoiseTypes :
        (/\ a.title \subseteq Range(noise_keywords[X])
         /\ Cardinality(a.title) = 2
         /\ a.content = {})
            => /\ weighted_count(X, a.title, a.content) = 50
               /\ a.noise_level \in {"heavy", "noise"}
               /\ a.noise_type = X

\* C15: the winner is a category of greatest score, at least 2.0; a greatest
\* score from 2.5 on that does not meet the heavy rule gives light with that
\* category; a greatest score below 2.5 gives none with no category.
C15_SeverityLadder ==
    \A a \in Digest :
        LET s(X) == weighted_count(X, a.title, a.content)
            Top(X) == \A Y \in NoiseTypes : s(Y) <= s(X)
        IN  /\ a.noise_type # "none"
                => s(a.noise_type) >= 20 /\ Top(a.noise_type)
            /\ (\A X \in NoiseTypes : s(X) < 25)
                => a.noise_level = "none" /\ a.noise_type = "none"
            /\ \A X \in NoiseTypes :
                (/\ Top(X)
                 /\ s(X) >= 25
                 /\ s(X) < 50
                 /\ ~(s(X) >= 40 /\ Len(Matches(X, a.title)) >= 2))
                    => /\ a.noise_level = "light"
                       /\ a.noise_type # "none"
                       /\ s(a.noise_type) = s(X)

\* a title with one keyword and a body with none scored 2.5 and came out light
C15_Witness ==
    \E a \in Digest :
        /\ a.title = {"chengpin"}
        /\ a.content = {}
        /\ weighted_count("zhaopin", a.title, a.content) = 25
        /\ a.noise_level = "light"
        /\ a.noise_type = "zhaopin"

\* C16: an article whose summary call failed carries a placeholder summary
\* that embeds the error description, and an empty category list; the loop
\* goes on, and every article, the failed one too, is in the digest.
C16_ApiFailureContained ==
    /\ \A a \in Digest :
          a.sum_status \in {"error", "raise"}
              => /\ a.ai_summary.origin = "error_text"
                 /\ a.categories = <<>>
    /\ pc = "processed" => Len(processed_articles) = Len(all_articles)

----------------------------------------------------------------------------
(* Claims on the run that collects nothing                                 *)

\* C18: a run that collects zero new articles sends exactly one `no new
\* articles' notification outside the quiet hours, none at all at the local
\* hours 0 to 8, and exits with status zero either way.
C18_NoNewArticlesNotification ==
    [][(pc = "collected" /\ all_articles = <<>> /\ pc' = "idle")
         => /\ exit_code' = 0
            /\ posts' = IF (now + hostTz) % 24 \in 0..8
                        THEN <<>> ELSE <<"no_new">>]_vars

\* a run without new articles at local hour 9 has sent its notification
C18_Witness ==
    /\ pc = "idle"
    /\ outcome = "no_new_notified"
    /\ (now + hostTz) % 24 = 9
    /\ posts = <<"no_new">>
    /\ exit_code = 0

----------------------------------------------------------------------------
(* Runs in which the fetch of some sources fails.  fetch_rss_articles has  *)
(* its whole body in try/except and returns [] when anything raises: the   *)
(* feed cannot be parsed, or an entry has no content, summary or           *)
(* description.                                                            *)

\* variant: the first failure ends the loop over the subscriptions
RECURSIVE FetchAll_StopAtFailure(_, _, _)
FetchAll_StopAtFailure(subs, seen, raised) ==
    IF subs = <<>> THEN <<>>
    ELSE IF Head(subs) \in raised THEN <<>>
    ELSE fetch_rss_articles(Head(subs), seen, MaxHours)
            \o FetchAll_StopAtFailure(Tail(subs), seen, raised)

\* main(): the loop over active_subscriptions, the fetch of the sources in
\* `raised' returning []
RECURSIVE FetchAll(_, _, _)
FetchAll(subs, seen, raised) ==
    IF subs = <<>> THEN <<>>
    ELSE (IF Head(subs) \in raised THEN <<>>
          ELSE fetch_rss_articles(Head(subs), seen, MaxHours))
            \o FetchAll(Tail(subs), seen, raised)

\* Step 3 with failing sources
CollectSomeFail ==
    /\ pc = "loaded"
    /\ \E raised \in SUBSET Sources :
          /\ all_articles' = FetchAll(active_subscriptions, seen_links, raised)
          /\ fetch_failed' = raised
    /\ pc' = "collected"
    /\ UNCHANGED <<ai_text, parsed, conf, posts, exit_code, disk, env, now,
                   seen_links, processed_articles, outcome, loadedSeen,
                   diskAtStart, delivered, failedDigest, rss_url>>

NextFetch ==
    \/ Tick
    \/ LoadSeen
    \/ CollectSomeFail
    \/ NoNewArticles
    \/ Process
    \/ CreateGist
    \/ Deliver

\* a host on UTC and no seen file yet
InitFetch ==
    /\ Init
    /\ hostTz = 0
    /\ disk = AbsentFile

SpecFetch == InitFetch /\ [][NextFetch]_vars

ArticlesOf(s, arts) == SelectSeq(arts, LAMBDA a : a.author = s)

\* C17: a source whose fetch fails contributes no article; every other
\* source is fetched all the same, and its articles reach the digest.
C17_FetchFailureContained ==
    /\ pc \in {"collected", "processed", "archived"}
          => \A s \in Sources :
                ArticlesOf(s, all_articles) =
                    IF s \in fetch_failed THEN <<>>
                    ELSE fetch_rss_articles(s, loadedSeen, MaxHours)
    /\ pc \in {"processed", "archived"}
          => \A i \in DOMAIN all_articles :
                \E j \in DOMAIN processed_articles :
                    processed_articles[j] = all_articles[i]

\* the fetch of s1 failed although s1 had a new entry, and the digest holds
\* the article of s2
C17_Witness ==
    /\ pc = "processed"
    /\ fetch_failed = {"s1"}
    /\ fetch_rss_articles("s1", loadedSeen, MaxHours) # <<>>
    /\ processed_articles # <<>>
    /\ \A j \in DOMAIN processed_articles : processed_articles[j].author = "s2"

----------------------------------------------------------------------------
(* The source list: load_subscriptions() at import, and the selection of   *)
(* the enabled subscriptions at the start of main().  `enabled' is "true", *)
(* "false" or "unset" (the key is missing).                                *)

MaxSubs == 2        \* entries of the config list; numbered variables set

Sub(name, url, enabled) == [name |-> name, url |-> url, enabled |-> enabled]

ConfigSubs == {Sub(n, n, e) : n \in {"c1", "c2"}, e \in {"true", "false", "unset"}}

\* config.json: absent, not readable as a JSON object, an object without
\* the key, or an object with a list
ConfigFiles ==
    {[kind |-> "absent", data |-> <<>>],
     [kind |-> "unreadable", data |-> <<>>],
     [kind |-> "valid", data |-> [other |-> <<>>]]}
    \cup {[kind |-> "valid", data |-> [rss_subscriptions |-> l]] :
            l \in UNION {[1..n -> ConfigSubs] : n \in 0..MaxSubs}}

\* RSS_i_NAME, RSS_i_URL ("": not set or empty), RSS_i_ENABLED, for i = 1, 2, ..
EnvEntries ==
    [name : {"", "e1"}, url : {"", "u1"}, enabled_str : {"unset", "True", "false"}]

Environs == UNION {[1..n -> EnvEntries] : n \in 0..MaxSubs}

\* the built-in example entry
ExampleSubscriptions == <<Sub("example", "example", "false")>>

\* os.getenv(f"RSS_{i}_ENABLED", "true").lower() == "true"
EnvEnabled(enabled_str) ==
    IF enabled_str \in {"unset", "true", "True"} THEN "true" ELSE "false"

\* the while loop: entries 1, 2, .. up to the first without name or url
EnvSubscriptions(e) ==
    LET stops == {i \in DOMAIN e : e[i].name = "" \/ e[i].url = ""}
        n == IF stops = {} THEN Len(e) ELSE SetMin(stops) - 1
    IN  [i \in 1..n |-> Sub(e[i].name, e[i].url, EnvEnabled(e[i].enabled_str))]

\* what follows the config file: the variables, else the example
FromEnvironment(e) ==
    IF EnvSubscriptions(e) # <<>> THEN EnvSubscriptions(e)
    ELSE ExampleSubscriptions

\* load_subscriptions with the variables looked at first
load_subscriptions_EnvFirst(file, e) ==
    IF EnvSubscriptions(e) # <<>> THEN EnvSubscriptions(e)
    ELSE IF file.kind = "valid"
    THEN DictGet(file.data, "rss_subscriptions", <<>>)
    ELSE ExampleSubscriptions

\* load_subscriptions()
load_subscriptions(file, e) ==
    IF file.kind = "valid"
    THEN DictGet(file.data, "rss_subscriptions", <<>>)
    ELSE FromEnvironment(e)

\* [sub for sub in RSS_SUBSCRIPTIONS if sub.get('enabled', True)]
ActiveOf(subscriptions) ==
    SelectSeq(subscriptions, LAMBDA sub : sub.enabled # "false")

InitConfig ==
    /\ MainUnused
    /\ pc = "import"
    /\ ai_text = <<>>
    /\ parsed = <<>>
    /\ fetch_failed = {}
    /\ posts = <<>>
    /\ exit_code = NoExit
    /\ config_file \in ConfigFiles
    /\ environ \in Environs
    /\ RSS_SUBSCRIPTIONS = <<>>

\* import of main.py: RSS_SUBSCRIPTIONS = load_subscriptions()
LoadSubscriptions ==
    /\ pc = "import"
    /\ RSS_SUBSCRIPTIONS' = load_subscriptions(config_file, environ)
    /\ pc' = "imported"
    /\ UNCHANGED <<mainVars, ai_text, parsed, fetch_failed, posts, exit_code,
                   config_file, environ>>

\* main(), steps 1 and 2: exit(1) when no subscription is enabled, before
\* any fetch
SelectActive ==
    /\ pc = "imported"
    /\ IF ActiveOf(RSS_SUBSCRIPTIONS) = <<>>
       THEN pc' = "exited" /\ exit_code' = 1 /\ outcome' = "no_active"
       ELSE pc' = "loaded" /\ exit_code' = NoExit /\ outcome' = "running"
    /\ UNCHANGED <<disk, env, now, seen_links, all_articles,
                   processed_articles, loadedSeen, diskAtStart, delivered,
                   failedDigest, rss_url, ai_text, parsed, fetch_failed, posts,
                   conf>>

NextConfig ==
    \/ LoadSubscriptions
    \/ SelectActive

SpecConfig == InitConfig /\ [][NextConfig]_vars

\* C19 as stated: with a config file present its list is used and the
\* variables are ignored; with none present the variables RSS_i_NAME and
\* RSS_i_URL are used; with neither, the result is the one example entry,
\* disabled, and the run stops before any fetch.
C19_SourcePrecedence ==
    pc # "import" =>
        /\ config_file.kind # "absent"
              => /\ config_file.kind = "valid"
                        => RSS_SUBSCRIPTIONS =
                            DictGet(config_file.data, "rss_subscriptions", <<>>)
                 /\ EnvSubscriptions(environ) # <<>>
                        => RSS_SUBSCRIPTIONS # EnvSubscriptions(environ)
        /\ (config_file.kind = "absent" /\ EnvSubscriptions(environ) # <<>>)
              => RSS_SUBSCRIPTIONS = EnvSubscriptions(environ)
        /\ (config_file.kind = "absent" /\ EnvSubscriptions(environ) = <<>>)
              => /\ RSS_SUBSCRIPTIONS = ExampleSubscriptions
                 /\ pc # "imported" => (pc = "exited" /\ exit_code = 1)

\* C19, amended: with a config file that is present and readable its list is
\* used and the variables are ignored; with no config file, or one that
\* cannot be read, the variables RSS_i_NAME and RSS_i_URL are used; when
\* these give no entry either, the result is the one example entry,
\* disabled, and the run stops before any fetch.
C19_SourcePrecedenceReadable ==
    pc # "import" =>
        /\ config_file.kind = "valid"
              => /\ RSS_SUBSCRIPTIONS =
                        DictGet(config_file.data, "rss_subscriptions", <<>>)
                 /\ EnvSubscriptions(environ) # <<>>
                        => RSS_SUBSCRIPTIONS # EnvSubscriptions(environ)
        /\ (config_file.kind # "valid" /\ EnvSubscriptions(environ) # <<>>)
              => RSS_SUBSCRIPTIONS = EnvSubscriptions(environ)
        /\ (config_file.kind # "valid" /\ EnvSubscriptions(environ) = <<>>)
              => /\ RSS_SUBSCRIPTIONS = ExampleSubscriptions
                 /\ pc # "imported" => (pc = "exited" /\ exit_code = 1)

\* a config file and variables are both there; the list of the file was
\* loaded and its enabled entry selected
C19_Witness ==
    /\ pc = "loaded"
    /\ outcome = "running"
    /\ config_file.kind = "valid"
    /\ EnvSubscriptions(environ) # <<>>
    /\ RSS_SUBSCRIPTIONS = <<Sub("c1", "c1", "true")>>

----------------------------------------------------------------------------
(* Further claims on the parsing of a generation text                      *)

\* C21: for a text with a tag section and no summary marker the returned
\* summary holds nothing of the tag section, also when that section runs
\* over several lines, and is exactly the remaining text.
C21_FallbackDropsTagSection ==
    \A t \in TagLists, d \in SectionDelims, b \in Bodies :
        (/\ pc = "parsed"
         /\ parsed.fn \in {"parse_ai_response", "summarize_article"}
         /\ ai_text = NoSummaryMarker(t, d, b))
            => parsed.summary = b

\* C22: a tag marker with a non-empty tag list gives non-empty categories,
\* the tags of the list, whether the tag line is followed directly by the
\* summary marker, by a blank line, or by one newline and the summary marker.
C22_TagListExtracted ==
    \A t \in TagLists, d \in ListDelims, e \in TagLineEnds, b \in Bodies :
        (/\ pc = "parsed"
         /\ parsed.fn = "parse_ai_response"
         /\ ai_text = Layout(t, d, e, b))
            => /\ parsed.categories # <<>>
               /\ Range(parsed.categories) \subseteq TagsOf(t)

----------------------------------------------------------------------------
(* Further claims on the keyword classifier                                *)

\* the distinct keywords of category X written in a text
DistinctIn(X, text) == {kw \in Range(noise_keywords[X]) : KwIn(kw, text)}

\* C23: a keyword counts once: a title with exactly one distinct keyword of
\* a category adds 2.5 for it and a body with exactly one adds 1, never more,
\* and one distinct title keyword alone never gives heavy.
C23_KeywordCountsOnce ==
    \A a \in Digest :
        /\ \A X \in NoiseTypes :
              /\ Cardinality(DistinctIn(X, a.title)) = 1
                    => Len(Matches(X, a.title)) * TitleWeight = 25
              /\ Cardinality(DistinctIn(X, a.content)) = 1
                    => Len(Matches(X, a.content)) * ContentWeight = 10
        /\ (Cardinality(a.title) = 1 /\ a.title \subseteq Keywords
                /\ (\A X \in NoiseTypes : Cardinality(DistinctIn(X, a.title)) <= 1)
                /\ a.content = {})
              => a.noise_level \notin {"heavy", "noise"}

\* C25: whenever the winning category is 融资 (rongzi) or 公关 (gongguan), the
\* level is pr, whatever its score and title count.
C25_FundingIsPr ==
    \A a \in Digest :
        a.noise_type \in {"rongzi", "gongguan"} => a.noise_level = "pr"

\* C28: the result is heavy exactly when the greatest score is at least 5;
\* a score from 4 on with two title keywords is already at least 5.
C28_HeavyIffFive ==
    \A a \in Digest :
        LET s(X) == weighted_count(X, a.title, a.content)
        IN  /\ a.noise_level = "heavy" <=> \E X \in NoiseTypes : s(X) >= 50
            /\ \A X \in NoiseTypes :
                  (s(X) >= 40 /\ Len(Matches(X, a.title)) >= 2) => s(X) >= 50

\* one title keyword and two body keywords of 招聘 score 4.5: light, not heavy
C28_Witness ==
    \E a \in Digest :
        /\ a.title = {"chengpin"}
        /\ a.content = {"chengpin", "rezhao"}
        /\ weighted_count("zhaopin", a.title, a.content) = 45
        /\ a.noise_level = "light"
        /\ a.noise_type = "zhaopin"

----------------------------------------------------------------------------
(* The per-source cap of RSSParser.fetch_articles                          *)

\* the values of max_articles: None, or a number
Caps == {NoCap} \cup (0..MaxEntries)

ParserThreshold == [datetime_now EXCEPT !.wall = @ - MaxHours]

\* positions of the feed's entries that are eligible: link not seen, inside
\* the time range, and not a repetition of an earlier eligible entry
EligibleAt(es, seen) ==
    {i \in DOMAIN es :
        /\ es[i].link \notin seen
        /\ ParserIsWithinTimeRange(es[i], ParserThreshold)
        /\ \A j \in 1..(i - 1) :
              ~(es[j].link = es[i].link
                /\ ParserIsWithinTimeRange(es[j], ParserThreshold))}

\* the position of the n-th eligible entry, in feed order
NthEligible(es, seen, n) ==
    CHOOSE i \in EligibleAt(es, seen) :
        Cardinality({j \in EligibleAt(es, seen) : j <= i}) = n

\* how many candidates a call with the cap m takes
TakenUnder(es, seen, m) ==
    IF m = NoCap \/ Cardinality(EligibleAt(es, seen)) <= m
    THEN Cardinality(EligibleAt(es, seen)) ELSE m

\* C27: a call of fetch_articles with max_articles set returns at most that
\* many candidates, they are the first eligible entries in feed order, and
\* exactly their links are added to the seen set: entries after the cap are
\* not marked seen.
C27_PerSourceCap ==
    [][(pc = "parser" /\ pc' = "parser" /\ now' = now) =>
        /\ \E m \in Caps :
              LET es == FeedEntries(rss_url)
                  k == TakenUnder(es, seen_links, m)
              IN  /\ Len(all_articles') = k
                  /\ \A n \in 1..k :
                        all_articles'[n] =
                            ParserArticle(es[NthEligible(es, seen_links, n)])
                  /\ seen_links' =
                        seen_links \cup {all_articles'[n].link : n \in 1..k}
        /\ \A m \in Caps :
            LET es == FeedEntries(rss_url)
                r == FetchLoop(es, <<>>, seen_links, m, ParserThreshold)
                k == TakenUnder(es, seen_links, m)
            IN  (all_articles' = r.articles /\ seen_links' = r.seen) =>
                   /\ m # NoCap => Len(all_articles') <= m
                   /\ Len(all_articles') = k
                   /\ \A n \in 1..k :
                         all_articles'[n] =
                             ParserArticle(es[NthEligible(es, seen_links, n)])
                   /\ seen_links' =
                         seen_links \cup {all_articles'[n].link : n \in 1..k}
                   /\ \A i \in EligibleAt(es, seen_links) :
                         Cardinality({j \in EligibleAt(es, seen_links) : j <= i}) > k
                             => es[i].link \notin seen_links'
      ]_vars

----------------------------------------------------------------------------
(* detect_noise on one title and body in several runs of the program. Each *)
(* run is a new interpreter: the iteration order of the set of category     *)
(* names built in detect_noise follows the string hashes of that run, which *)
(* max() turns into the choice among categories of equal score.             *)

MaxRuns == 2        \* runs of the program on the same article

InitRuns ==
    /\ disk = AbsentFile
    /\ feeds = <<>>
    /\ hostTz = 0
    /\ now = 0
    /\ pc = "runs"
    /\ seen_links = {}
    /\ all_articles \in {<<NewArticle(Word(1), t, c)>> : t \in Texts, c \in Texts}
    /\ processed_articles = <<>>
    /\ outcome = "running"
    /\ loadedSeen = {}
    /\ diskAtStart = AbsentFile
    /\ delivered = {}
    /\ failedDigest = {}
    /\ rss_url = "none"
    /\ ExtUnused

\* one run: detect_noise(article['title'], article['content'])
DetectNoiseRun ==
    /\ pc = "runs"
    /\ Len(processed_articles) < MaxRuns
    /\ \E noise \in detect_noise(all_articles[1].title, all_articles[1].content) :
          processed_articles' = Append(processed_articles, noise)
    /\ UNCHANGED <<ext, posts, exit_code, disk, env, now, pc, seen_links,
                   all_articles, outcome, loadedSeen, diskAtStart, delivered,
                   failedDigest, rss_url>>

NextRuns == DetectNoiseRun

SpecRuns == InitRuns /\ [][NextRuns]_vars

\* C24: for the same title and body detect_noise returns the same level and
\* category in every run, categories of equal greatest score included.
C24_SameResultEveryRun ==
    pc = "runs" =>
        \A i, j \in DOMAIN processed_articles :
            /\ processed_articles[i].noise_level = processed_articles[j].noise_level
            /\ processed_articles[i].noise_type = processed_articles[j].noise_type

----------------------------------------------------------------------------
(* Order of the digest                                                     *)

Parseable(a) == a.published.kind \in {"aware", "naive"}

\* C26: the sort of the candidates never fails, and the digest is in
\* descending order of publish time with every article without a parseable
\* time after all articles with one, also when timestamps with and without
\* zone are in the same set.
C26_SortCompletesDescending ==
    /\ outcome # "sort_error"
    /\ \A i, j \in DOMAIN processed_articles :
          LET a == processed_articles[i]
              b == processed_articles[j]
          IN  i < j =>
                /\ Parseable(b) => Parseable(a)
                /\ (a.published.kind = "aware" /\ b.published.kind = "aware")
                      => UtcOf(a.published) >= UtcOf(b.published)
                /\ (a.published.kind = "naive" /\ b.published.kind = "naive")
                      => a.published.wall >= b.published.wall

----------------------------------------------------------------------------
(* Archive and delivery                                                    *)

DeliveryPosts == {i \in DOMAIN posts : posts[i] = "delivery"}

\* C29: in a run with candidates the delivery POST is sent at most once and
\* only right after the archive POST returned a URL; when the archive POST
\* fails no delivery is sent, the run exits with a non-zero status and the
\* seen file stays as it was.
C29_DeliveryGatedOnArchive ==
    /\ [](/\ Cardinality(DeliveryPosts) <= 1
          /\ outcome = "gist_failed" =>
                /\ DeliveryPosts = {}
                /\ posts = <<"gist">>
                /\ exit_code >= 1
                /\ disk = diskAtStart)
    /\ [][(Len(posts') = Len(posts) + 1 /\ posts'[Len(posts')] = "delivery") =>
            /\ pc = "archived"
            /\ outcome = "running"
            /\ all_articles # <<>>
            /\ posts = <<"gist">>]_vars

\* a run with candidates over an existing seen file has ended at the failed
\* archive POST
C29_Witness ==
    /\ pc = "idle"
    /\ outcome = "gist_failed"
    /\ all_articles # <<>>
    /\ posts = <<"gist">>
    /\ exit_code = 1
    /\ disk.kind = "valid"
    /\ disk = diskAtStart

----------------------------------------------------------------------------
(* Runs without candidates                                                 *)

\* C30: a run that collects no candidate leaves the seen file as it was,
\* links and update time alike, in the quiet hours and outside them, whether
\* the notification went through or not.
C30_NoCandidatesKeepSeenFile ==
    /\ (pc = "collected" /\ all_articles = <<>>) => disk = diskAtStart
    /\ outcome \in {"no_new_quiet", "no_new_notified", "no_new_notify_failed"}
          => /\ all_articles = <<>>
             /\ disk = diskAtStart

\* a run without candidates over a seen file with links has ended after a
\* notification that failed
C30_Witness ==
    /\ pc = "idle"
    /\ outcome = "no_new_notify_failed"
    /\ posts = <<"no_new">>
    /\ all_articles = <<>>
    /\ disk.kind = "valid"
    /\ LinksOnDisk # {}
    /\ disk = diskAtStart

====
